---- MODULE Spec2Model ----
(***************************************************************************)
(* Model of the crawl/download engine of CSS_Checker (src/index.js):       *)
(* startCrawl, fetchAndProcessUrl, downloadResource and the hand-over to   *)
(* analyzeCSSFiles / analyzeHTMLFiles.                                     *)
(*                                                                         *)
(* Strings are sequences of one-character strings, so that startsWith,     *)
(* includes, path.basename and the URL parser are computed on characters.  *)
(* One action is one turn of the Node event loop: an I/O completion        *)
(* callback together with every microtask continuation it triggers.        *)
(***************************************************************************)
EXTENDS Integers, Sequences, FiniteSets

(***************************************************************************)
(* String primitives (the methods of String.prototype)                     *)
(***************************************************************************)

\* s.startsWith(p)
StartsWith(s, p) ==
  /\ Len(p) <= Len(s)
  /\ SubSeq(s, 1, Len(p)) = p

\* s.endsWith(p)
EndsWith(s, p) ==
  /\ Len(p) <= Len(s)
  /\ SubSeq(s, Len(s) - Len(p) + 1, Len(s)) = p

\* s.includes(p)
Includes(s, p) ==
  \E i \in 1..(Len(s) - Len(p) + 1) : SubSeq(s, i, i + Len(p) - 1) = p

\* index of the first character of s that lies in the set cs, Len(s)+1 if none
FirstOf(s, cs) ==
  IF \E i \in 1..Len(s) : s[i] \in cs
    THEN CHOOSE i \in 1..Len(s) : s[i] \in cs /\ \A j \in 1..(i - 1) : s[j] \notin cs
    ELSE Len(s) + 1

\* index of the last character of s that lies in the set cs, 0 if none
LastOf(s, cs) ==
  IF \E i \in 1..Len(s) : s[i] \in cs
    THEN CHOOSE i \in 1..Len(s) : s[i] \in cs /\ \A j \in (i + 1)..Len(s) : s[j] \notin cs
    ELSE 0

\* s.substring(i - 1): the characters of s from position i on
From(s, i) == SubSeq(s, i, Len(s))

\* s.substring(0, i - 1): the characters of s before position i
Before(s, i) == SubSeq(s, 1, i - 1)

\* s.replace(/\./g, "_")
ReplaceDots(s) == [i \in 1..Len(s) |-> IF s[i] = "." THEN "_" ELSE s[i]]

Digits == <<"0", "1", "2", "3", "4", "5", "6", "7", "8", "9">>

\* the decimal digits of a counter, as the template literal `${counter}` prints it
RECURSIVE DecimalString(_)
DecimalString(n) ==
  IF n < 10 THEN <<Digits[n + 1]>>
  ELSE DecimalString(n \div 10) \o <<Digits[(n % 10) + 1]>>

(***************************************************************************)
(* The WHATWG URL parser (require("url").URL), on the inputs the model     *)
(* draws: no dot segments, no whitespace, no backslashes, no ports, lower  *)
(* case hosts.                                                             *)
(***************************************************************************)

Letters == {"a", "b", "c", "d", "e", "f", "g", "h", "i", "j", "k", "l", "m",
            "n", "o", "p", "q", "r", "s", "t", "u", "v", "w", "x", "y", "z"}

SchemeHttps == <<"h", "t", "t", "p", "s">>
SchemeHttp == <<"h", "t", "t", "p">>
SpecialSchemes == {SchemeHttps, SchemeHttp}

\* the input starts with "<letters>:", the scheme state of the parser
HasScheme(s) ==
  LET c == FirstOf(s, {":"})
  IN /\ c > 1
     /\ c <= Len(s)
     /\ \A i \in 1..(c - 1) : s[i] \in Letters

\* splits "path?query#fragment" into its three parts (each keeps its marker)
SplitTail(s) ==
  LET f == FirstOf(s, {"#"})
      noFrag == Before(s, f)
      q == FirstOf(noFrag, {"?"})
  IN [path |-> Before(noFrag, q), query |-> From(noFrag, q), fragment |-> From(s, f)]

\* parses an input that has a scheme; ok = FALSE where the parser throws
ParseAbsolute(s) ==
  LET c == FirstOf(s, {":"})
      scheme == Before(s, c)
      rest == From(s, c + 1)
  IN IF scheme \in SpecialSchemes
       THEN LET afterSlashes == IF StartsWith(rest, <<"/", "/">>) THEN From(rest, 3) ELSE rest
                e == FirstOf(afterSlashes, {"/", "?", "#"})
                authority == Before(afterSlashes, e)
                at == LastOf(authority, {"@"})
                tail == SplitTail(From(afterSlashes, e))
            IN [ok |-> Len(From(authority, at + 1)) > 0,
                special |-> TRUE,
                scheme |-> scheme,
                userinfo |-> Before(authority, at + 1),
                host |-> From(authority, at + 1),
                path |-> IF tail.path = <<>> THEN <<"/">> ELSE tail.path,
                query |-> tail.query,
                fragment |-> tail.fragment]
       ELSE LET tail == SplitTail(rest)
            IN [ok |-> TRUE,
                special |-> FALSE,
                scheme |-> scheme,
                userinfo |-> <<>>,
                host |-> <<>>,
                path |-> tail.path,
                query |-> tail.query,
                fragment |-> tail.fragment]

\* url.href: the serialization of a parsed URL
Href(u) ==
  IF u.special
    THEN u.scheme \o <<":", "/", "/">> \o u.userinfo \o u.host \o u.path \o u.query \o u.fragment
    ELSE u.scheme \o <<":">> \o u.path \o u.query \o u.fragment

\* url.origin
UrlOrigin(u) ==
  IF u.special
    THEN u.scheme \o <<":", "/", "/">> \o u.host
    ELSE <<"n", "u", "l", "l">>

\* url.hostname
Hostname(u) == u.host

\* new URL(input): the parsed URL, ok = FALSE where the constructor throws (the
\* other fields are then what the parser had collected, and are not used)
NewURL(input) ==
  IF HasScheme(input)
    THEN ParseAbsolute(input)
    ELSE [ParseAbsolute(input) EXCEPT !.ok = FALSE]

\* new URL(href, base): href resolved against the (parsed, special) base
NewURLWithBase(href, base) ==
  IF HasScheme(href) THEN ParseAbsolute(href)
  ELSE LET b == ParseAbsolute(base)
           t == SplitTail(href)
       IN IF StartsWith(href, <<"/", "/">>)
            THEN ParseAbsolute(b.scheme \o <<":">> \o href)
          ELSE IF StartsWith(href, <<"/">>)
            THEN [b EXCEPT !.path = t.path, !.query = t.query, !.fragment = t.fragment]
          ELSE IF t.path = <<>> /\ t.query = <<>>
            THEN [b EXCEPT !.fragment = t.fragment]
          ELSE IF t.path = <<>>
            THEN [b EXCEPT !.query = t.query, !.fragment = t.fragment]
          ELSE [b EXCEPT !.path = Before(b.path, LastOf(b.path, {"/"}) + 1) \o t.path,
                         !.query = t.query,
                         !.fragment = t.fragment]

\* path.basename(p): the last segment of p, trailing slashes ignored
RECURSIVE StripTrailingSlashes(_)
StripTrailingSlashes(p) ==
  IF Len(p) > 0 /\ p[Len(p)] = "/" THEN StripTrailingSlashes(Before(p, Len(p))) ELSE p

Basename(p) ==
  LET s == StripTrailingSlashes(p)
  IN From(s, LastOf(s, {"/"}) + 1)

\* path.join(folderName, fileName)
PathJoin(folderName, fileName) == folderName \o <<"/">> \o fileName

(***************************************************************************)
(* The sites the crawl is run against.  A site is a set of pages, each     *)
(* with the hrefs of its <link rel="stylesheet"> and <a> elements in       *)
(* document order; a scenario is a site and the seed given on the command  *)
(* line.                                                                   *)
(***************************************************************************)

OriginA == <<"h", "t", "t", "p", "s", ":", "/", "/", "a", ".", "c", "o", "m">>
UrlBX == <<"h", "t", "t", "p", "s", ":", "/", "/", "b", ".", "c", "o", "m", "/", "x">>
UrlAY == OriginA \o <<"/", "y">>
UrlAB == OriginA \o <<"/", "b">>
UrlAC == OriginA \o <<"/", "c">>
UrlAD == OriginA \o <<"/", "d">>
UrlRoot == OriginA \o <<"/">>
UrlDirPage == OriginA \o <<"/", "d", "/", "p", ".", "h">>
UrlDirB == OriginA \o <<"/", "d", "/", "b", ".", "h">>
UrlX == OriginA \o <<"/", "x", "/">>

HrefTop == <<"#", "t", "o", "p">>
HrefMailto == <<"m", "a", "i", "l", "t", "o", ":", "x", "@", "y">>
HrefCdn == <<"/", "/", "c", ".", "d", "/", "a", ".", "c", "s", "s">>
HrefFragCss == <<"t", ".", "c", "s", "s", "#", "x">>
HrefSCss == <<"/", "s", ".", "c", "s", "s">>
HrefRelCss == <<"t", ".", "c", "s", "s">>
HrefRelB == <<"b", ".", "h">>
HrefXStyle == <<"/", "x", "/", "s", ".", "c", "s", "s">>
HrefYStyle == <<"/", "y", "/", "s", ".", "c", "s", "s">>

\* A links to B and C, B and C both link to D, C links back to A
ChainSite ==
  { [url |-> UrlRoot, styles |-> <<>>, anchors |-> << <<"/", "b">>, <<"/", "c">> >>],
    [url |-> UrlAB, styles |-> <<>>, anchors |-> << <<"/", "d">> >>],
    [url |-> UrlAC, styles |-> <<>>, anchors |-> << <<"/", "d">>, <<"/">> >>],
    [url |-> UrlAD, styles |-> <<HrefSCss>>, anchors |-> <<>>] }

\* links inside and outside the origin, and every excluded kind of href
BoundarySite ==
  { [url |-> UrlRoot,
     styles |-> <<HrefSCss, HrefCdn, HrefFragCss>>,
     anchors |-> <<UrlBX, HrefTop, <<"/", "y">>, HrefMailto, <<"/", "y">> >>],
    [url |-> UrlAY,
     styles |-> <<HrefSCss>>,
     anchors |-> <<UrlBX, HrefTop, <<"/", "y", "#", "s">> >>] }

\* a page below a directory whose links are relative
RelativeSite ==
  { [url |-> UrlDirPage, styles |-> <<HrefRelCss>>, anchors |-> <<HrefRelB>>],
    [url |-> UrlDirB, styles |-> <<>>, anchors |-> <<>>] }

\* two stylesheets of the same base name in different directories
NamesSite ==
  { [url |-> UrlRoot, styles |-> <<HrefXStyle, HrefYStyle>>, anchors |-> << <<"/", "x", "/">> >>],
    [url |-> UrlX, styles |-> <<HrefXStyle>>, anchors |-> <<>>] }

HrefBad == <<"h", "t", "t", "p", ":", "/", "/">>

\* an anchor without href and an anchor the URL parser rejects, between valid
\* links; a stylesheet link the parser rejects, before a valid anchor
MalformedSite ==
  { [url |-> UrlRoot,
     styles |-> <<HrefSCss>>,
     anchors |-> << <<"/", "b">>, <<>>, HrefBad, <<"/", "c">> >>],
    [url |-> UrlAB, styles |-> <<HrefBad>>, anchors |-> << <<"/", "d">> >>],
    [url |-> UrlAC, styles |-> <<>>, anchors |-> <<>>],
    [url |-> UrlAD, styles |-> <<>>, anchors |-> <<>>] }

OriginExample == <<"h", "t", "t", "p", "s", ":", "/", "/",
                   "e", "x", "a", "m", "p", "l", "e", ".", "c", "o", "m">>
UrlExampleRoot == OriginExample \o <<"/">>
UrlExampleAbout == OriginExample \o <<"/", "a", "b", "o", "u", "t">>
UrlExampleSCss == OriginExample \o <<"/", "s", ".", "c", "s", "s">>
HrefAbout == <<"/", "a", "b", "o", "u", "t">>
HrefOther == <<"h", "t", "t", "p", "s", ":", "/", "/", "o", "t", "h", "e", "r", ".", "c", "o", "m", "/">>

\* the page of the end-to-end example: <link rel="stylesheet" href="/s.css">,
\* <a href="/about">, <a href="https://other.com/">, <a href="#top">
ExampleSite ==
  { [url |-> UrlExampleRoot, styles |-> <<HrefSCss>>, anchors |-> <<HrefAbout, HrefOther, HrefTop>>],
    [url |-> UrlExampleAbout, styles |-> <<>>, anchors |-> <<>>] }

HrefYHtml == <<"/", "y", ".", "h", "t", "m", "l">>

\* a page named y that links the stylesheet /y.html
CollideSite ==
  { [url |-> UrlAY, styles |-> <<HrefYHtml>>, anchors |-> <<>>] }

UrlEvilSuffix == OriginA \o <<".", "e", "v", "i", "l", ".", "c", "o", "m", "/">>
UrlEvilUser == OriginA \o <<"@", "e", "v", "i", "l", ".", "c", "o", "m", "/">>

\* links to other hosts whose URLs begin with the characters of the origin
EvilSite ==
  { [url |-> UrlRoot, styles |-> <<>>, anchors |-> <<UrlEvilSuffix, UrlEvilUser>>],
    [url |-> UrlEvilSuffix, styles |-> <<>>, anchors |-> <<>>] }

HrefPdf == <<"/", "d", ".", "p", "d", "f">>
UrlPdf == OriginA \o HrefPdf

\* a page that links a PDF document the server holds
PdfSite ==
  { [url |-> UrlRoot, styles |-> <<>>, anchors |-> <<HrefPdf>>],
    [url |-> UrlPdf, styles |-> <<>>, anchors |-> <<>>] }

\* the seed page links to /b, which links back to the seed page
LoopSite ==
  { [url |-> UrlRoot, styles |-> <<>>, anchors |-> << <<"/", "b">> >>],
    [url |-> UrlAB, styles |-> <<>>, anchors |-> << <<"/">> >>] }

Scenarios ==
  { [startUrl |-> UrlRoot, site |-> ChainSite],
    [startUrl |-> UrlRoot, site |-> BoundarySite],
    [startUrl |-> UrlDirPage, site |-> RelativeSite],
    [startUrl |-> UrlRoot, site |-> NamesSite],
    [startUrl |-> UrlRoot, site |-> MalformedSite],
    [startUrl |-> UrlExampleRoot, site |-> ExampleSite],
    [startUrl |-> UrlAY, site |-> CollideSite],
    [startUrl |-> UrlRoot, site |-> EvilSite],
    [startUrl |-> UrlRoot, site |-> PdfSite],
    [startUrl |-> OriginA, site |-> LoopSite],
    [startUrl |-> <<"a", ".", "c", "o", "m", "/", "y">>, site |-> BoundarySite],
    [startUrl |-> <<"/", "y">>, site |-> BoundarySite] }

\* the number of failures (network, status, stream, disk) injected in one run
MaxFailures == 1

\* the URL a GET asks the server for: the fragment is not sent
RequestUrl(u) ==
  LET p == NewURL(u)
  IN Href([p EXCEPT !.fragment = <<>>])

\* the server has a page at the URL
PageExists(pages, u) == \E p \in pages : p.url = RequestUrl(u)

\* response.data of a successful page GET
PageAt(pages, u) == CHOOSE p \in pages : p.url = RequestUrl(u)

(***************************************************************************)
(* State                                                                   *)
(***************************************************************************)

VARIABLES
  startUrl,           \* process.argv[2]
  site,               \* the pages the server holds
  pc,                 \* where startCrawl stands
  thrownAt,           \* the statement whose error rejected startCrawl
  baseUrl,            \* parsedUrl.origin, passed to every fetchAndProcessUrl
  folderName,         \* the destination folder
  dirExists,          \* fs.ensureDir has created the folder
  visitedUrls,        \* the Set of line 7
  styleSheetCounter,  \* line 8
  htmlFileCounter,    \* line 9
  tasks,              \* every call of fetchAndProcessUrl and downloadResource, in call order
  downloadQueue,      \* the array of promises of startCrawl, as indices into tasks
  waitSet,            \* the promises Promise.all took from downloadQueue when it was called
  files,              \* the paths present in the folder
  analyzed,           \* the paths the analysis has listed
  failures            \* failures injected so far

vars == <<startUrl, site, pc, thrownAt, baseUrl, folderName, dirExists, visitedUrls,
          styleSheetCounter, htmlFileCounter, tasks, downloadQueue, waitSet, files,
          analyzed, failures>>

NoPath == <<>>

(***************************************************************************)
(* downloadResource, up to its first await (lines 11-23)                   *)
(***************************************************************************)

\* a counter that is read but not advanced
IncrementLost(counter) == counter

\* ++styleSheetCounter / ++htmlFileCounter
Increment(counter) == counter + 1

\* line 13
IsSkippedName(resourceName) == Includes(resourceName, <<".", "p", "d", "f">>)

\* line 15
ResourceFileName(folder, counter, resourceName, isStylesheet) ==
  IF isStylesheet
    THEN folder \o <<"_">> \o DecimalString(counter) \o <<"_">> \o resourceName
    ELSE folder \o <<"_">> \o DecimalString(counter) \o <<"_">> \o resourceName
           \o <<".", "h", "t", "m", "l">>

\* The call downloadResource(resourceUrl, folder, isStylesheet) made while `parent`
\* scans `href`, and the push of its promise.  m holds the globals and the queue.
DownloadResource(m, resourceUrl, folder, isStylesheet, parent, href) ==
  LET resourceName == Basename(resourceUrl)
      skipped == IsSkippedName(resourceName)
      old == IF isStylesheet THEN m.css ELSE m.html
      counter == IF skipped THEN old ELSE Increment(old)
      task == [fn |-> "downloadResource",
               url |-> resourceUrl,
               isStylesheet |-> isStylesheet,
               state |-> IF skipped THEN "returned" ELSE "get",
               promise |-> IF skipped THEN "fulfilled" ELSE "pending",
               result |-> IF skipped THEN "skipped" ELSE "pending",
               counter |-> IF skipped THEN 0 ELSE counter,
               path |-> IF skipped THEN NoPath
                        ELSE PathJoin(folder, ResourceFileName(folder, counter, resourceName, isStylesheet)),
               parent |-> parent,
               href |-> href]
  IN [m EXCEPT !.tasks = Append(m.tasks, task),
               !.queue = Append(m.queue, Len(m.tasks) + 1),
               !.css = IF isStylesheet THEN counter ELSE m.css,
               !.html = IF isStylesheet THEN m.html ELSE counter]

(***************************************************************************)
(* fetchAndProcessUrl (lines 166-209)                                      *)
(***************************************************************************)

\* a visited set that forgets the insertion
AddVisitedLost(visited, url) == visited

\* line 176
AddVisited(visited, url) == visited \cup {url}

\* a fetchAndProcessUrl that starts the download of its page when it is called,
\* before the page GET has answered
FetchAndProcessUrlEager(m, urlToFetch, parent, href, push) ==
  LET seen == urlToFetch \in m.visited
      task == [fn |-> "fetchAndProcessUrl",
               url |-> urlToFetch,
               isStylesheet |-> FALSE,
               state |-> IF seen THEN "returned" ELSE "get",
               promise |-> IF seen THEN "fulfilled" ELSE "pending",
               result |-> IF seen THEN "visited" ELSE "pending",
               counter |-> 0,
               path |-> NoPath,
               parent |-> parent,
               href |-> href]
      called == [m EXCEPT !.tasks = Append(m.tasks, task),
                          !.queue = IF push THEN Append(m.queue, Len(m.tasks) + 1)
                                    ELSE m.queue,
                          !.visited = m.visited \cup {urlToFetch}]
  IN IF seen THEN called
     ELSE DownloadResource(called, urlToFetch, folderName, FALSE, Len(m.tasks) + 1, <<>>)

\* The call fetchAndProcessUrl(urlToFetch, ...) up to its first await
\* (lines 172-179); the promise is pushed by the caller when push is TRUE.
FetchAndProcessUrl(m, urlToFetch, parent, href, push) ==
  LET seen == urlToFetch \in m.visited
      task == [fn |-> "fetchAndProcessUrl",
               url |-> urlToFetch,
               isStylesheet |-> FALSE,
               state |-> IF seen THEN "returned" ELSE "get",
               promise |-> IF seen THEN "fulfilled" ELSE "pending",
               result |-> IF seen THEN "visited" ELSE "pending",
               counter |-> 0,
               path |-> NoPath,
               parent |-> parent,
               href |-> href]
  IN [m EXCEPT !.tasks = Append(m.tasks, task),
               !.queue = IF push THEN Append(m.queue, Len(m.tasks) + 1) ELSE m.queue,
               !.visited = IF seen THEN m.visited ELSE AddVisited(m.visited, urlToFetch)]

\* line 188
StylesheetAccepted(href) ==
  /\ href # <<>>
  /\ ~StartsWith(href, <<"/", "/">>)
  /\ ~Includes(href, <<"#">>)

\* an anchor filter that lets fragment-only hrefs through
AnchorAcceptedFragments(href) ==
  /\ href # <<>>
  /\ ~StartsWith(href, <<"m", "a", "i", "l", "t", "o", ":">>)

\* line 197
AnchorAccepted(href) ==
  /\ href # <<>>
  /\ ~StartsWith(href, <<"#">>)
  /\ ~StartsWith(href, <<"m", "a", "i", "l", "t", "o", ":">>)

\* lines 189 and 198: new URL(href, baseUrl).href
ResolveHref(href, base) == Href(NewURLWithBase(href, base))

\* lines 189 and 198: new URL(href, baseUrl) does not throw
Resolves(href, base) == NewURLWithBase(href, base).ok

\* an origin test that accepts every URL
IsInternalAnywhere(nextUrl, base) == TRUE

\* line 199, first conjunct
IsInternal(nextUrl, base) == StartsWith(nextUrl, base)

\* lines 186-192, from the i-th stylesheet link on
\* (new URL throws on an href it cannot parse; the exception leaves the each-loop)
RECURSIVE ScanStylesheets(_, _, _, _, _, _)
ScanStylesheets(m, hrefs, i, base, folder, parent) ==
  IF i > Len(hrefs) THEN m
  ELSE LET href == hrefs[i]
       IN IF StylesheetAccepted(href) /\ ~Resolves(href, base)
            THEN [m EXCEPT !.thrown = TRUE]
            ELSE ScanStylesheets(IF StylesheetAccepted(href)
                                   THEN DownloadResource(m, ResolveHref(href, base),
                                                         folder, TRUE, parent, href)
                                   ELSE m,
                                 hrefs, i + 1, base, folder, parent)

\* lines 195-205, from the i-th anchor on
\* (not entered when the stylesheet loop has thrown)
RECURSIVE ScanAnchors(_, _, _, _, _)
ScanAnchors(m, hrefs, i, base, parent) ==
  IF m.thrown \/ i > Len(hrefs) THEN m
  ELSE LET href == hrefs[i]
           nextUrl == ResolveHref(href, base)
           next == IF /\ AnchorAccepted(href)
                      /\ IsInternal(nextUrl, base)
                      /\ nextUrl \notin m.visited
                     THEN FetchAndProcessUrl(m, nextUrl, parent, href, TRUE)
                     ELSE m
       IN IF AnchorAccepted(href) /\ ~Resolves(href, base)
            THEN [m EXCEPT !.thrown = TRUE]
            ELSE ScanAnchors(next, hrefs, i + 1, base, parent)

\* lines 180-205: the continuation of task t after a successful page GET
ProcessPage(m, t, page, base, folder) ==
  LET own == DownloadResource(m, m.tasks[t].url, folder, FALSE, t, <<>>)
      styled == ScanStylesheets(own, page.styles, 1, base, folder, t)
  IN ScanAnchors(styled, page.anchors, 1, base, t)

\* a fetch error that escapes the async function: its promise rejects
FetchErrorEscapes(task) ==
  [task EXCEPT !.state = "returned", !.promise = "rejected", !.result = "failed"]

\* lines 206-208: the catch block; the async function then returns
CatchFetchError(task) ==
  [task EXCEPT !.state = "returned", !.promise = "fulfilled", !.result = "failed"]

\* lines 205-209: task t returns after the scan, through the catch block when
\* the scan has thrown
EndOfScan(m, t) ==
  [m EXCEPT !.tasks[t] =
     IF m.thrown
       THEN [CatchFetchError(m.tasks[t]) EXCEPT !.result = "threw"]
       ELSE [m.tasks[t] EXCEPT !.state = "returned", !.promise = "fulfilled", !.result = "ok"]]

\* lines 32-35: the catch block of downloadResource, which returns null
CatchDownloadError(task) ==
  [task EXCEPT !.state = "returned", !.promise = "fulfilled", !.result = "failed"]

(***************************************************************************)
(* startCrawl (lines 211-232)                                              *)
(***************************************************************************)

\* a seed check that accepts every string
SeedParsesAnything(input) == TRUE

\* line 212: new URL(startUrl) does not throw
SeedParses(input) == NewURL(input).ok

\* line 227: what `await Promise.all(...)` does once the promises in ws stand as in ts
PromiseAll(ws, ts) ==
  IF \E i \in ws : ts[i].promise = "rejected" THEN "rejected"
  ELSE IF \A i \in ws : ts[i].promise = "fulfilled" THEN "analyzeCSS"
  ELSE "waitAll"

\* the promises Promise.all iterates over when it is called (line 227)
Snapshot(queue) == {queue[i] : i \in 1..Len(queue)}

Globals == [tasks |-> tasks, queue |-> downloadQueue, visited |-> visitedUrls,
            css |-> styleSheetCounter, html |-> htmlFileCounter, thrown |-> FALSE]

\* writes the globals back and resumes startCrawl where the turn lets it:
\* after `await fetchAndProcessUrl` (line 219) when the seed task has settled,
\* after `await Promise.all` (line 227) when the awaited promises have
Commit(m) ==
  /\ tasks' = m.tasks
  /\ downloadQueue' = m.queue
  /\ visitedUrls' = m.visited
  /\ styleSheetCounter' = m.css
  /\ htmlFileCounter' = m.html
  /\ IF pc = "awaitSeed" /\ m.tasks[1].promise # "pending"
       THEN IF m.tasks[1].promise = "rejected"
              THEN /\ pc' = "rejected"
                   /\ thrownAt' = "fetchAndProcessUrl"
                   /\ waitSet' = waitSet
              ELSE /\ waitSet' = Snapshot(m.queue)
                   /\ pc' = PromiseAll(Snapshot(m.queue), m.tasks)
                   /\ thrownAt' = IF pc' = "rejected" THEN "Promise.all" ELSE thrownAt
     ELSE IF pc = "waitAll"
       THEN /\ pc' = PromiseAll(waitSet, m.tasks)
            /\ thrownAt' = IF pc' = "rejected" THEN "Promise.all" ELSE thrownAt
            /\ waitSet' = waitSet
     ELSE UNCHANGED <<pc, thrownAt, waitSet>>

Init ==
  /\ \E sc \in Scenarios : startUrl = sc.startUrl /\ site = sc.site
  /\ pc = "start"
  /\ thrownAt = "none"
  /\ baseUrl = <<>>
  /\ folderName = <<>>
  /\ dirExists = FALSE
  /\ visitedUrls = {}
  /\ styleSheetCounter = 0
  /\ htmlFileCounter = 0
  /\ tasks = <<>>
  /\ downloadQueue = <<>>
  /\ waitSet = {}
  /\ files = {}
  /\ analyzed = {}
  /\ failures = 0

\* lines 212-216: parse the seed and ask for the folder
StartCrawl ==
  /\ pc = "start"
  /\ IF SeedParses(startUrl)
       THEN /\ pc' = "ensureDir"
            /\ baseUrl' = UrlOrigin(NewURL(startUrl))
            /\ folderName' = ReplaceDots(Hostname(NewURL(startUrl)))
            /\ UNCHANGED thrownAt
       ELSE /\ pc' = "rejected"
            /\ thrownAt' = "new URL"
            /\ UNCHANGED <<baseUrl, folderName>>
  /\ UNCHANGED <<startUrl, site, dirExists, visitedUrls, styleSheetCounter, htmlFileCounter,
                 tasks, downloadQueue, waitSet, files, analyzed, failures>>

\* lines 216-224: the folder exists; the seed's fetchAndProcessUrl is called and awaited
EnsureDirDone ==
  /\ pc = "ensureDir"
  /\ dirExists' = TRUE
  /\ pc' = "awaitSeed"
  /\ LET m == FetchAndProcessUrl(Globals, startUrl, 0, <<>>, FALSE)
     IN /\ tasks' = m.tasks
        /\ downloadQueue' = m.queue
        /\ visitedUrls' = m.visited
  /\ UNCHANGED <<startUrl, site, thrownAt, baseUrl, folderName, styleSheetCounter,
                 htmlFileCounter, waitSet, files, analyzed, failures>>

\* line 216: fs.ensureDir rejects
EnsureDirFail ==
  /\ pc = "ensureDir"
  /\ failures < MaxFailures
  /\ failures' = failures + 1
  /\ pc' = "rejected"
  /\ thrownAt' = "ensureDir"
  /\ UNCHANGED <<startUrl, site, baseUrl, folderName, dirExists, visitedUrls,
                 styleSheetCounter, htmlFileCounter, tasks, downloadQueue, waitSet,
                 files, analyzed>>

Crawling == pc \in {"awaitSeed", "waitAll", "analyzeCSS", "analyzeHTML", "done"}

\* lines 179-208: the page GET of task t succeeds; the page is scanned, and an
\* exception thrown by the scan is caught like a failed GET
PageGetOk(t) ==
  /\ Crawling
  /\ tasks[t].fn = "fetchAndProcessUrl"
  /\ tasks[t].state = "get"
  /\ PageExists(site, tasks[t].url)
  /\ Commit(EndOfScan(ProcessPage(Globals, t, PageAt(site, tasks[t].url), baseUrl, folderName),
                      t))
  /\ UNCHANGED <<startUrl, site, baseUrl, folderName, dirExists, files, analyzed, failures>>

\* lines 179, 206-208: the page GET of task t fails
PageGetFail(t) ==
  /\ Crawling
  /\ tasks[t].fn = "fetchAndProcessUrl"
  /\ tasks[t].state = "get"
  /\ PageExists(site, tasks[t].url) => failures < MaxFailures
  /\ failures' = IF PageExists(site, tasks[t].url) THEN failures + 1 ELSE failures
  /\ Commit([Globals EXCEPT !.tasks[t] = CatchFetchError(tasks[t])])
  /\ UNCHANGED <<startUrl, site, baseUrl, folderName, dirExists, files, analyzed>>

\* lines 19-29: the streaming GET of download d answers; the body is piped to the file
DownloadGetOk(d) ==
  /\ Crawling
  /\ tasks[d].fn = "downloadResource"
  /\ tasks[d].state = "get"
  /\ files' = files \cup {tasks[d].path}
  /\ Commit([Globals EXCEPT !.tasks[d].state = "write"])
  /\ UNCHANGED <<startUrl, site, baseUrl, folderName, dirExists, analyzed, failures>>

\* lines 19, 32-35: the streaming GET of download d fails
DownloadGetFail(d) ==
  /\ Crawling
  /\ tasks[d].fn = "downloadResource"
  /\ tasks[d].state = "get"
  /\ failures < MaxFailures
  /\ failures' = failures + 1
  /\ Commit([Globals EXCEPT !.tasks[d] = CatchDownloadError(tasks[d])])
  /\ UNCHANGED <<startUrl, site, baseUrl, folderName, dirExists, files, analyzed>>

\* lines 27, 31: the write stream finishes; the path is returned
WriteFinish(d) ==
  /\ Crawling
  /\ tasks[d].fn = "downloadResource"
  /\ tasks[d].state = "write"
  /\ Commit([Globals EXCEPT !.tasks[d].state = "returned",
                            !.tasks[d].promise = "fulfilled",
                            !.tasks[d].result = "ok"])
  /\ UNCHANGED <<startUrl, site, baseUrl, folderName, dirExists, files, analyzed, failures>>

\* lines 28, 32-35: the write stream reports an error
WriteError(d) ==
  /\ Crawling
  /\ tasks[d].fn = "downloadResource"
  /\ tasks[d].state = "write"
  /\ failures < MaxFailures
  /\ failures' = failures + 1
  /\ Commit([Globals EXCEPT !.tasks[d] = CatchDownloadError(tasks[d])])
  /\ UNCHANGED <<startUrl, site, baseUrl, folderName, dirExists, files, analyzed>>

\* lines 24-29: the response stream breaks off; no listener of the promise hears of
\* it (the error listener is on the write stream), so the promise stays pending
BodyError(d) ==
  /\ Crawling
  /\ tasks[d].fn = "downloadResource"
  /\ tasks[d].state = "write"
  /\ failures < MaxFailures
  /\ failures' = failures + 1
  /\ Commit([Globals EXCEPT !.tasks[d].state = "hung"])
  /\ UNCHANGED <<startUrl, site, baseUrl, folderName, dirExists, files, analyzed>>

\* lines 38-137: analyzeCSSFiles lists the folder and reads the .css files
AnalyzeCSSFiles ==
  /\ pc = "analyzeCSS"
  /\ analyzed' = analyzed \cup {f \in files : EndsWith(f, <<".", "c", "s", "s">>)}
  /\ pc' = "analyzeHTML"
  /\ UNCHANGED <<startUrl, site, thrownAt, baseUrl, folderName, dirExists, visitedUrls,
                 styleSheetCounter, htmlFileCounter, tasks, downloadQueue, waitSet, files,
                 failures>>

\* lines 139-164: analyzeHTMLFiles lists the folder and reads the .html files
AnalyzeHTMLFiles ==
  /\ pc = "analyzeHTML"
  /\ analyzed' = analyzed \cup {f \in files : EndsWith(f, <<".", "h", "t", "m", "l">>)}
  /\ pc' = "done"
  /\ UNCHANGED <<startUrl, site, thrownAt, baseUrl, folderName, dirExists, visitedUrls,
                 styleSheetCounter, htmlFileCounter, tasks, downloadQueue, waitSet, files,
                 failures>>

Next ==
  \/ StartCrawl
  \/ EnsureDirDone
  \/ EnsureDirFail
  \/ \E t \in 1..Len(tasks) : PageGetOk(t)
  \/ \E t \in 1..Len(tasks) : PageGetFail(t)
  \/ \E d \in 1..Len(tasks) : DownloadGetOk(d)
  \/ \E d \in 1..Len(tasks) : DownloadGetFail(d)
  \/ \E d \in 1..Len(tasks) : WriteFinish(d)
  \/ \E d \in 1..Len(tasks) : WriteError(d)
  \/ \E d \in 1..Len(tasks) : BodyError(d)
  \/ AnalyzeCSSFiles
  \/ AnalyzeHTMLFiles

Spec == Init /\ [][Next]_vars

(***************************************************************************)
(* Properties                                                              *)
(***************************************************************************)

TaskIds == 1..Len(tasks)
PageTasks == {t \in TaskIds : tasks[t].fn = "fetchAndProcessUrl"}
Downloads == {d \in TaskIds : tasks[d].fn = "downloadResource"}
FileDownloads == {d \in Downloads : tasks[d].result # "skipped"}
PastGate == pc \in {"analyzeCSS", "analyzeHTML", "done"}
Processed(p) == p \in PageTasks /\ tasks[p].result = "ok"
AnchorsOf(p) == PageAt(site, tasks[p].url).anchors
StylesOf(p) == PageAt(site, tasks[p].url).styles
Occurs(hrefs, h) == \E i \in 1..Len(hrefs) : hrefs[i] = h

\* C1: Completion closure.  Once startCrawl is past its Promise.all (the analysis
\* has been started), every promise ever pushed into downloadQueue has settled,
\* those pushed after the wait began included.
C1_CompletionClosure ==
  PastGate => \A i \in Snapshot(downloadQueue) : tasks[i].promise # "pending"

\* C2: Stable file set.  While analyzeCSSFiles or analyzeHTMLFiles runs, no
\* downloadResource call is in flight: none awaits its GET or its file write.
C2_StableFileSet ==
  pc \in {"analyzeCSS", "analyzeHTML"} =>
    \A d \in Downloads : tasks[d].state \notin {"get", "write", "hung"}

\* the URL with its fragment and its trailing slashes dropped
Normalized(u) == StripTrailingSlashes(RequestUrl(u))

\* the task issues a GET for its URL
Fetches(t) == tasks[t].result \notin {"skipped", "visited"}

\* C3: Dedup.  No two page tasks, and no two stylesheet downloads, fetch URLs that
\* are equal after normalization (fragment and trailing slash dropped).
C3_Dedup ==
  \A i, j \in TaskIds :
    ( /\ i # j
      /\ Fetches(i)
      /\ Fetches(j)
      /\ tasks[i].fn = tasks[j].fn
      /\ tasks[i].isStylesheet = tasks[j].isStylesheet
      /\ tasks[i].fn = "fetchAndProcessUrl" \/ tasks[i].isStylesheet )
    => Normalized(tasks[i].url) # Normalized(tasks[j].url)

\* at most one fetchAndProcessUrl call per URL string passes the visitedUrls
\* check, and every URL that passed is in visitedUrls
AtMostOnePass ==
  /\ \A i, j \in PageTasks :
       (Fetches(i) /\ Fetches(j) /\ tasks[i].url = tasks[j].url) => i = j
  /\ \A i \in PageTasks : tasks[i].url \in visitedUrls

\* C4: Atomic check-and-insert.  Under every interleaving at most one call of
\* fetchAndProcessUrl per URL string passes the visitedUrls check (one page GET,
\* one scan), and visitedUrls only grows.
C4_AtomicCheckAndInsert ==
  /\ []AtMostOnePass
  /\ [][visitedUrls \subseteq visitedUrls']_vars

\* page p holds an anchor the scan accepts as a link to u
Discovers(p, u) ==
  \E i \in 1..Len(AnchorsOf(p)) :
    /\ AnchorAccepted(AnchorsOf(p)[i])
    /\ ResolveHref(AnchorsOf(p)[i], baseUrl) = u

\* two different pages have been scanned that link to the same URL, and one task
\* exists for it
C4_Witness ==
  \E p, q \in PageTasks : \E t \in PageTasks :
    /\ p # q
    /\ Processed(p)
    /\ Processed(q)
    /\ Discovers(p, tasks[t].url)
    /\ Discovers(q, tasks[t].url)
    /\ tasks[t].parent = p

\* the pages that hold an anchor, not excluded by its href, that resolves to
\* https://a.com/y under origin https://a.com
PagesLinkingAY ==
  {q \in UNION {sc.site : sc \in Scenarios} :
     \E i \in 1..Len(q.anchors) :
       /\ ~StartsWith(q.anchors[i], <<"#">>)
       /\ ~StartsWith(q.anchors[i], <<"m", "a", "i", "l", "t", "o", ":">>)
       /\ Href(NewURLWithBase(q.anchors[i], OriginA)) = UrlAY}

\* C5: Same-origin boundary.  With origin https://a.com no page task is ever
\* dispatched for https://b.com/x, every page task found through a link starts
\* with the seed's origin, and once a page holding an anchor to https://a.com/y
\* has been scanned a page task for https://a.com/y exists.
C5_SameOriginBoundary ==
  baseUrl = OriginA =>
    /\ \A t \in PageTasks : tasks[t].url # UrlBX
    /\ \A t \in PageTasks \ {1} : StartsWith(tasks[t].url, UrlOrigin(NewURL(startUrl)))
    /\ \A p \in PageTasks :
         (Processed(p) /\ PageAt(site, tasks[p].url) \in PagesLinkingAY) =>
           \E t \in PageTasks : tasks[t].url = UrlAY

\* a page other than the seed, holding anchors to https://b.com/x, has been
\* scanned, and https://a.com/y was dispatched
C5_Witness ==
  /\ baseUrl = OriginA
  /\ \E p \in PageTasks \ {1} : Processed(p) /\ Occurs(AnchorsOf(p), UrlBX)
  /\ \E p \in PageTasks : Processed(p) /\ PageAt(site, tasks[p].url) \in PagesLinkingAY
  /\ \E t \in PageTasks : tasks[t].url = UrlAY

\* C6: Exclusion rules.  No page task comes from an anchor whose href starts with
\* '#' or 'mailto:', and no stylesheet download comes from a link whose href
\* starts with '//' or contains '#'.
C6_ExclusionRules ==
  /\ \A t \in PageTasks \ {1} :
       /\ ~StartsWith(tasks[t].href, <<"#">>)
       /\ ~StartsWith(tasks[t].href, <<"m", "a", "i", "l", "t", "o", ":">>)
  /\ \A d \in Downloads :
       tasks[d].isStylesheet =>
         /\ ~StartsWith(tasks[d].href, <<"/", "/">>)
         /\ ~Includes(tasks[d].href, <<"#">>)

\* a page holding all four kinds of excluded href has been scanned, and its other
\* links were dispatched
C6_Witness ==
  \E p \in PageTasks :
    /\ Processed(p)
    /\ Occurs(AnchorsOf(p), HrefTop)
    /\ Occurs(AnchorsOf(p), HrefMailto)
    /\ Occurs(StylesOf(p), HrefCdn)
    /\ Occurs(StylesOf(p), HrefFragCss)
    /\ \E t \in PageTasks : tasks[t].parent = p
    /\ \E d \in Downloads : tasks[d].parent = p /\ tasks[d].isStylesheet

\* the step is the failure of the page GET of task t
PageGetFails(t) ==
  /\ t \in PageTasks
  /\ tasks[t].state = "get"
  /\ tasks'[t].result = "failed"

\* C7: Failure isolation.  A failing page GET fulfils its task's promise and leaves
\* every other task as it was (the siblings' GETs stay in flight); no promise of
\* the crawl ever rejects, startCrawl is not rejected by the crawl, and it passes
\* the wait as soon as the awaited promises have settled, failed ones included.
C7_FailureIsolation ==
  /\ [][\A t \in TaskIds :
          PageGetFails(t) =>
            /\ tasks'[t].promise = "fulfilled"
            /\ Len(tasks') = Len(tasks)
            /\ \A s \in TaskIds \ {t} : tasks'[s] = tasks[s]
            /\ pc' # "rejected"]_vars
  /\ [](\A t \in TaskIds : tasks[t].promise # "rejected")
  /\ [](pc = "rejected" => tasks = <<>>)
  /\ [](pc = "awaitSeed" => tasks[1].promise = "pending")
  /\ [](pc = "waitAll" => \E i \in waitSet : tasks[i].promise = "pending")

\* the page GET of one linked page has failed, a sibling found on the same parent
\* has been fetched and scanned, and the analysis has been started
C7_Witness ==
  /\ PastGate
  /\ \E t, s \in PageTasks \ {1} :
       /\ t # s
       /\ tasks[t].parent = tasks[s].parent
       /\ tasks[t].result = "failed"
       /\ PageExists(site, tasks[t].url)
       /\ Processed(s)

\* C8: Filename uniqueness within a kind.  Two downloads of the same kind that were
\* given a file name have different counter values and different paths; each
\* counter counts the downloads of its own kind only.
C8_FilenameUniqueness ==
  /\ \A i, j \in FileDownloads :
       (i # j /\ tasks[i].isStylesheet = tasks[j].isStylesheet) =>
         /\ tasks[i].counter # tasks[j].counter
         /\ tasks[i].path # tasks[j].path
  /\ styleSheetCounter = Cardinality({d \in FileDownloads : tasks[d].isStylesheet})
  /\ htmlFileCounter = Cardinality({d \in FileDownloads : ~tasks[d].isStylesheet})

\* two stylesheets of the same base name and different URLs are being downloaded
\* at the same time, next to a page download
C8_Witness ==
  /\ \E i, j \in FileDownloads :
       /\ i # j
       /\ tasks[i].isStylesheet
       /\ tasks[j].isStylesheet
       /\ tasks[i].url # tasks[j].url
       /\ Basename(tasks[i].url) = Basename(tasks[j].url)
       /\ tasks[i].state \in {"get", "write"}
       /\ tasks[j].state \in {"get", "write"}
  /\ \E d \in FileDownloads : ~tasks[d].isStylesheet /\ tasks[d].state \in {"get", "write"}

\* C9: Relative links resolve against the containing page.  The URL of every task
\* dispatched for a link is the link's href resolved against the URL of the page
\* that holds the link.
C9_ResolveAgainstPage ==
  \A t \in TaskIds :
    tasks[t].href # <<>> =>
      tasks[t].url = Href(NewURLWithBase(tasks[t].href, tasks[tasks[t].parent].url))

\* C10: Seed parse failure is fatal before any work.  When the seed is no valid
\* absolute URL, startCrawl is rejected by new URL; the folder is never created,
\* no task exists (no GET was issued), visitedUrls stays empty and no analysis runs.
C10_SeedParseFatal ==
  (~NewURL(startUrl).ok /\ pc # "start") =>
    /\ pc = "rejected"
    /\ thrownAt = "new URL"
    /\ ~dirExists
    /\ tasks = <<>>
    /\ downloadQueue = <<>>
    /\ visitedUrls = {}
    /\ analyzed = {}

\* startCrawl was called with a seed that does not parse
C10_Witness ==
  /\ ~NewURL(startUrl).ok
  /\ pc = "rejected"

\* the page GET of task p has succeeded (its scan may have thrown)
Fetched(p) == p \in PageTasks /\ tasks[p].result \in {"ok", "threw"}

\* C11: Malformed hrefs are tolerated.  Once a fetched page has been scanned,
\* every stylesheet link and every internal anchor of the page whose href is
\* present, not excluded and parseable has been dispatched, whatever other hrefs
\* stand before it on the page.
C11_MalformedTolerated ==
  \A p \in PageTasks :
    Fetched(p) =>
      /\ \A i \in 1..Len(StylesOf(p)) :
           LET h == StylesOf(p)[i]
           IN (h # <<>> /\ ~StartsWith(h, <<"/", "/">>) /\ ~Includes(h, <<"#">>)
                 /\ NewURLWithBase(h, baseUrl).ok)
              => \E d \in Downloads : tasks[d].parent = p /\ tasks[d].href = h
      /\ \A i \in 1..Len(AnchorsOf(p)) :
           LET h == AnchorsOf(p)[i]
           IN (h # <<>> /\ ~StartsWith(h, <<"#">>)
                 /\ ~StartsWith(h, <<"m", "a", "i", "l", "t", "o", ":">>)
                 /\ NewURLWithBase(h, baseUrl).ok
                 /\ StartsWith(Href(NewURLWithBase(h, baseUrl)), baseUrl))
              => \E t \in PageTasks : tasks[t].url = Href(NewURLWithBase(h, baseUrl))

\* the tasks dispatched while page task p was scanned
DispatchedBy(p) == {t \in TaskIds : tasks[t].parent = p}

\* the seed page of the end-to-end example has been scanned
ExampleScanned ==
  /\ startUrl = UrlExampleRoot
  /\ site = ExampleSite
  /\ Processed(1)

\* the two tasks of the example: the stylesheet download of /s.css and the page
\* task for /about
IsExampleLinkTask(t) ==
  \/ /\ tasks[t].fn = "downloadResource"
     /\ tasks[t].isStylesheet
     /\ tasks[t].url = UrlExampleSCss
  \/ /\ tasks[t].fn = "fetchAndProcessUrl"
     /\ tasks[t].url = UrlExampleAbout

\* C12 as stated: scanning the example page dispatches exactly two tasks, the
\* stylesheet download of /s.css and the page task for /about.
C12_ExactlyTwoTasks ==
  ExampleScanned =>
    /\ Cardinality(DispatchedBy(1)) = 2
    /\ \A t \in DispatchedBy(1) : IsExampleLinkTask(t)

\* C12 as amended: scanning the example page dispatches exactly two tasks for its
\* links, the stylesheet download of /s.css and the page task for /about, and
\* none for https://other.com/ and #top; the only other task it dispatches is
\* the download of the page itself.
C12_TwoLinkTasks ==
  ExampleScanned =>
    LET linked == {t \in DispatchedBy(1) : tasks[t].href # <<>>}
        own == DispatchedBy(1) \ linked
    IN /\ Cardinality(linked) = 2
       /\ \A t \in linked : IsExampleLinkTask(t)
       /\ \E t \in linked : tasks[t].fn = "downloadResource"
       /\ \E t \in linked : tasks[t].fn = "fetchAndProcessUrl"
       /\ Cardinality(own) = 1
       /\ \A t \in own :
            /\ tasks[t].fn = "downloadResource"
            /\ ~tasks[t].isStylesheet
            /\ tasks[t].url = UrlExampleRoot

\* the example page has been scanned and its page task for /about was fetched
C12_Witness ==
  /\ ExampleScanned
  /\ \E t \in DispatchedBy(1) : Processed(t)

\* C13: Filenames never collide across the session.  Any two downloadResource
\* calls that write a file, of the same kind or a page and a stylesheet, write to
\* different paths.
C13_NoCollision ==
  \A i, j \in FileDownloads : i # j => tasks[i].path # tasks[j].path

\* C14: No page outside the origin is crawled.  Every URL a fetchAndProcessUrl
\* task is dispatched for has the scheme, host and port of the seed URL.
C14_OriginOnly ==
  \A t \in PageTasks :
    UrlOrigin(NewURL(tasks[t].url)) = UrlOrigin(NewURL(startUrl))

\* C15: Download errors are data.  Every downloadResource call that met an error
\* (of the request, of the response body while it is piped, or of the write stream)
\* has returned null: its promise is fulfilled, neither rejected nor left pending.
C15_DownloadErrorsCaught ==
  \A d \in Downloads :
    (tasks[d].result = "failed" \/ tasks[d].state = "hung") =>
      /\ tasks[d].state = "returned"
      /\ tasks[d].promise = "fulfilled"

\* a failed page task dispatched nothing, its URL is in visitedUrls, and no other
\* page task fetches that URL
DeadEnd(t) ==
  /\ DispatchedBy(t) = {}
  /\ tasks[t].url \in visitedUrls
  /\ \A s \in PageTasks \ {t} : tasks[s].url = tasks[t].url => ~Fetches(s)

\* C16: A failed page is a dead end and is never retried.  When the page GET of a
\* URL has failed, no download and no page task was dispatched from it, the step of
\* the failure dispatches nothing, the URL stays in visitedUrls, and no other
\* fetchAndProcessUrl call fetches that URL, however often it is discovered.
C16_FailedPageDeadEnd ==
  /\ [](\A t \in PageTasks : tasks[t].result = "failed" => DeadEnd(t))
  /\ [][\A t \in PageTasks :
          (tasks[t].result = "failed" \/ tasks'[t].result = "failed") =>
            /\ tasks'[t].result = "failed"
            /\ \A s \in (1..Len(tasks')) \ TaskIds :
                 tasks'[s].parent # t /\ tasks'[s].url # tasks[t].url]_vars

\* the GET of a page the server holds has failed; afterwards the crawl went on, a
\* page other than its parent that links to the same URL has been scanned, and
\* the analysis has been started
C16_Witness ==
  /\ PastGate
  /\ \E t \in PageTasks \ {1} : \E q \in PageTasks :
       /\ tasks[t].result = "failed"
       /\ PageExists(site, tasks[t].url)
       /\ q # tasks[t].parent
       /\ Processed(q)
       /\ Discovers(q, tasks[t].url)

\* C17: Causal ordering.  Every task dispatched for page P (a child page task, a
\* stylesheet download, the download of P itself) is created in the step in which
\* P's page GET answers successfully, never before; sibling tasks are not ordered.
C17_CausalOrder ==
  /\ [](\A t \in TaskIds : tasks[t].parent # 0 => Fetched(tasks[t].parent))
  /\ [][\A t \in (1..Len(tasks')) \ TaskIds :
          tasks'[t].parent # 0 =>
            /\ tasks'[t].parent \in PageTasks
            /\ tasks[tasks'[t].parent].state = "get"
            /\ tasks'[tasks'[t].parent].result \in {"ok", "threw"}]_vars

\* of two sibling pages the one dispatched later has been fetched and has
\* dispatched its own tasks while the GET of the earlier one is still in flight
C17_Witness ==
  \E a, b \in PageTasks :
    /\ a < b
    /\ tasks[a].parent # 0
    /\ tasks[a].parent = tasks[b].parent
    /\ tasks[a].state = "get"
    /\ Processed(b)
    /\ \E t \in DispatchedBy(b) : tasks[t].fn = "fetchAndProcessUrl"

\* C18: Non-text resources are skipped entirely.  For a resource whose base name
\* contains '.pdf' no GET is issued, no promise enters downloadQueue and no file
\* name is assigned.
C18_PdfSkippedEntirely ==
  \A t \in TaskIds :
    Includes(Basename(tasks[t].url), <<".", "p", "d", "f">>) =>
      /\ ~Fetches(t)
      /\ t \notin Snapshot(downloadQueue)
      /\ tasks[t].path = NoPath

\* C19: The crawl terminates.  While startCrawl waits for the seed task or for
\* Promise.all, some GET has not settled yet or some file write is still to
\* finish or fail: a wait with every GET settled and no write left to settle,
\* which would last forever, does not occur.
C19_WaitOnlyOnUnsettled ==
  pc \in {"awaitSeed", "waitAll"} =>
    \E t \in TaskIds : tasks[t].state \in {"get", "write"}

\* C20: The seed page is processed once.  At most one fetchAndProcessUrl call
\* issues a GET for the seed page, also when a page links back to it and the
\* seed was spelled without the trailing slash.
C20_SeedOnce ==
  Cardinality({t \in PageTasks :
                 Fetches(t) /\ RequestUrl(tasks[t].url) = RequestUrl(startUrl)}) <= 1
====
